---- MODULE Spec2Model ----
(***************************************************************************)
(* DayRepository (src/day.rs): a get-or-create mapping from calendar dates *)
(* to rows (id, date) of the SQLite table `days`, and the week windows      *)
(* built on it.                                                             *)
(*                                                                          *)
(* A date is its day number counted from 0001-01-01 = 1 (chrono's           *)
(* num_days_from_ce), so day 1 is a Monday.  The table is the set `rows`    *)
(* of records [id, date] together with `seq`, the AUTOINCREMENT counter.    *)
(* One caller issues one repository call at a time; `last` records the call *)
(* that just returned.  Every statement sent to the store may fail (the set *)
(* `fs` of an action names the failing ones); SpecNoFail is the same        *)
(* program over a store that never fails.  SpecRace is two callers of       *)
(* from_date on one store, one statement at a time; `calls` holds where     *)
(* each of them is in its call.                                             *)
(***************************************************************************)
EXTENDS Integers, Sequences, FiniteSets

\* ---------------------------------------------------------------- bounds
\* The window calls are given the dates FirstDate..LastDate (Thursday of the
\* first week to Monday of the second); from_date is given, and the clock
\* shows, the last two of them.
FirstDate == 4
LastDate == 8
\* No call is started that would leave more than MaxRows rows in the table.
MaxRows == 7
\* list_passed_days is called with count in 0..MaxCount.
MaxCount == 3
\* Statements fail only in calls made on a table of at most MaxFaultRows rows.
MaxFaultRows == 1
\* day and resolve are given the ids 1..MaxId.
MaxId == 3
\* Two interleaved callers start no call that could leave more than
\* MaxRaceRows rows in the table.
MaxRaceRows == 4

Dates == FirstDate..LastDate
PointDates == (LastDate - 1)..LastDate
Ids == 1..MaxId
Counts == 0..MaxCount

\* The two callers whose from_date calls interleave.
Callers == {"a", "b"}

VARIABLES rows, seq, last, calls
vars == <<rows, seq, last, calls>>

\* ---------------------------------------------------------------- values
\* Day::new(id, date)
Day(id, date) == [id |-> id, date |-> date]

\* eyre::Result: Ok carries the Days returned (one, or a Vec), Err the kind.
Ok(days) == [ok |-> TRUE, val |-> days, err |-> "none"]
Err(kind) == [ok |-> FALSE, val |-> <<>>, err |-> kind]

\* The three statements from_date can send to the store.
Stmts == {"lookup", "insert", "relookup"}

FaultSets == SUBSET Stmts

\* ---------------------------------------------------------------- store adapter
\* query_row returning the row written last instead of the first one.
LastRow(matching) == CHOOSE r \in matching : \A q \in matching : q.id <= r.id

\* query_row returns the first row of the result; SQLite scans `days`
\* (no index on date) in rowid order, so the first row is the lowest id.
FirstRow(matching) == CHOOSE r \in matching : \A q \in matching : r.id <= q.id

\* DayRepository::get: query_row(statement, parameters, day_from_row).
\* `matching` is the set of rows the statement's WHERE clause selects.
get(matching, fail) ==
    IF fail THEN Err("StoreError")
    ELSE IF matching = {} THEN Err("NotFound")
    ELSE Ok(<<FirstRow(matching)>>)

\* The lookup without its WHERE clause: "SELECT id, date FROM days".
from_date_or_none_any(db, date, fail) == get(db.rows, fail)

\* "SELECT id, date FROM days WHERE date = ?1"
from_date_or_none(db, date, fail) ==
    get({r \in db.rows : r.date = date}, fail)

\* insert under a UNIQUE constraint on date: it fails, and writes nothing,
\* when the date has a row.
insert_unique_from_date(db, date, fail) ==
    IF fail \/ \E r \in db.rows : r.date = date
    THEN [db |-> db, res |-> Err("StoreError")]
    ELSE [db  |-> [rows |-> db.rows \cup {Day(db.seq + 1, date)},
                   seq  |-> db.seq + 1],
          res |-> Ok(<<>>)]

\* insert as "INSERT OR REPLACE" keyed by the date: the rows of that date
\* are deleted when the new one is written.
insert_or_replace_from_date(db, date, fail) ==
    IF fail THEN [db |-> db, res |-> Err("StoreError")]
    ELSE [db  |-> [rows |-> {r \in db.rows : r.date # date}
                              \cup {Day(db.seq + 1, date)},
                   seq  |-> db.seq + 1],
          res |-> Ok(<<>>)]

\* "INSERT INTO days (date) VALUES (?1)": AUTOINCREMENT gives the new row
\* the id after the largest one ever assigned.
insert_from_date(db, date, fail) ==
    IF fail THEN [db |-> db, res |-> Err("StoreError")]
    ELSE [db  |-> [rows |-> db.rows \cup {Day(db.seq + 1, date)},
                   seq  |-> db.seq + 1],
          res |-> Ok(<<>>)]

\* One entry of the log of statements a call sent to the store.
Sent(stmt, date, failed) == [stmt |-> stmt, date |-> date, failed |-> failed]

\* from_date without the early return: it inserts whatever the lookup found.
from_date_always_insert(db, date, fs) ==
    LET ins   == insert_from_date(db, date, "insert" \in fs)
        again == from_date_or_none(ins.db, date, "relookup" \in fs)
    IN  [db |-> ins.db, res |-> again,
         log |-> << Sent("lookup", date, "lookup" \in fs),
                    Sent("insert", date, "insert" \in fs),
                    Sent("relookup", date, "relookup" \in fs) >>]

\* DayRepository::from_date: lookup; `if let Ok(day)` returns it; on any Err
\* the insert runs, its Result is dropped, and the second lookup is returned.
from_date(db, date, fs) ==
    LET first == from_date_or_none(db, date, "lookup" \in fs)
    IN  IF first.ok
        THEN [db |-> db, res |-> first,
              log |-> <<Sent("lookup", date, FALSE)>>]
        ELSE LET ins   == insert_from_date(db, date, "insert" \in fs)
                 again == from_date_or_none(ins.db, date, "relookup" \in fs)
             IN  [db |-> ins.db, res |-> again,
                  log |-> << Sent("lookup", date, "lookup" \in fs),
                             Sent("insert", date, "insert" \in fs),
                             Sent("relookup", date, "relookup" \in fs) >>]

\* ---------------------------------------------------------------- week window
\* Weekday::num_days_from_monday of a date: day 1 (0001-01-01) is a Monday.
WeekdayFromMonday(date) == (date - 1) % 7

\* week with Weekday::Sun as the first day.
week_from_sunday(date) == date - (date % 7)

\* date.week(Weekday::Mon): the week is kept as its first day, the Monday on
\* or before the date.
week(date) == date - WeekdayFromMonday(date)

\* NaiveWeekExt::iter_days: the days of the week, first day first.
iter_days(w) == [i \in 1..7 |-> w + (i - 1)]

\* The failing statements of a window call: those of fs, on the k-th date
\* the call resolves (k = 0: none).
FaultsAt(k, fs) == [i \in 1..7 |-> IF i = k THEN fs ELSE {}]

\* .map(|date| self.from_date(date)).collect::<eyre::Result<Vec<Day>>>():
\* the dates are resolved in order; the first Err ends the iteration and is
\* the result, the dates after it are never resolved.
RECURSIVE collect(_, _, _, _)
collect(acc, dates, faults, i) ==
    IF i > Len(dates) THEN [acc EXCEPT !.res = Ok(acc.days)]
    ELSE LET r == from_date(acc.db, dates[i], faults[i])
             steps == Append(acc.steps, r.res)
             log == acc.log \o r.log
         IN  IF r.res.ok
             THEN collect([db |-> r.db, days |-> Append(acc.days, r.res.val[1]),
                           res |-> acc.res, steps |-> steps, log |-> log],
                          dates, faults, i + 1)
             ELSE [db |-> r.db, days |-> acc.days, res |-> r.res,
                   steps |-> steps, log |-> log]

\* map and collect that drop the dates whose resolution failed
\* (filter_map(Result::ok)) instead of ending at the first Err.
RECURSIVE collect_ok(_, _, _, _)
collect_ok(acc, dates, faults, i) ==
    IF i > Len(dates) THEN [acc EXCEPT !.res = Ok(acc.days)]
    ELSE LET r == from_date(acc.db, dates[i], faults[i])
         IN  collect_ok([db |-> r.db,
                         days |-> IF r.res.ok THEN Append(acc.days, r.res.val[1])
                                  ELSE acc.days,
                         res |-> acc.res, steps |-> Append(acc.steps, r.res),
                         log |-> acc.log \o r.log],
                        dates, faults, i + 1)

map_from_date_collect_ok(db, dates, faults) ==
    collect_ok([db |-> db, days |-> <<>>, res |-> Ok(<<>>), steps |-> <<>>,
                log |-> <<>>], dates, faults, 1)

map_from_date_collect(db, dates, faults) ==
    collect([db |-> db, days |-> <<>>, res |-> Ok(<<>>), steps |-> <<>>,
             log |-> <<>>], dates, faults, 1)

\* DayRepository::complete_week
complete_week(db, date, faults) ==
    map_from_date_collect(db, iter_days(week(date)), faults)

\* week_till_date with `<` in the filter.
week_till_date_before(db, date, faults) ==
    map_from_date_collect(db,
        SelectSeq(iter_days(week(date)), LAMBDA day : day < date), faults)

\* DayRepository::week_till_date: the week's days are filtered before they
\* are resolved.
week_till_date(db, date, faults) ==
    map_from_date_collect(db,
        SelectSeq(iter_days(week(date)), LAMBDA day : day <= date), faults)

\* ---------------------------------------------------------------- reads
\* The orders "ORDER BY date DESC" allows: rows of equal date come in any order.
RECURSIVE OrderByDateDesc(_)
OrderByDateDesc(S) ==
    IF S = {} THEN {<<>>}
    ELSE UNION { { <<r>> \o t : t \in OrderByDateDesc(S \ {r}) } :
                 r \in {x \in S : \A y \in S : y.date <= x.date} }

\* "LIMIT ?1"
Limit(s, count) == SubSeq(s, 1, IF count < Len(s) THEN count ELSE Len(s))

\* DayRepository::query with list_passed_days' statement: the results
\* "SELECT id, date FROM days ORDER BY date DESC LIMIT ?1" can give.
list_passed_days(db, count, fail) ==
    IF fail THEN {Err("StoreError")}
    ELSE {Ok(Limit(s, count)) : s \in OrderByDateDesc(db.rows)}

\* day with the date column in the WHERE clause.
day_by_date(db, id, fail) == get({r \in db.rows : r.date = id}, fail)

\* DayRepository::day: "SELECT id, date FROM days WHERE id = ?1"
day(db, id, fail) == get({r \in db.rows : r.id = id}, fail)

\* DayReference::Id(id) and DayReference::Value(day)
ById(id) == [tag |-> "Id", id |-> id, day |-> <<>>]
ByValue(d) == [tag |-> "Value", id |-> 0, day |-> <<d>>]

\* resolve that looks a carried Day up by its id instead of returning it.
resolve_always_lookup(db, reference, fail) ==
    IF reference.tag = "Id" THEN get({r \in db.rows : r.id = reference.id}, fail)
    ELSE get({r \in db.rows : r.id = reference.day[1].id}, fail)

\* DayRepository::resolve
resolve(db, reference, fail) ==
    IF reference.tag = "Id" THEN day(db, reference.id, fail)
    ELSE Ok(reference.day)

\* ---------------------------------------------------------------- schema
\* The table a connection without `days` gets from CREATE TABLE: no row, no
\* id assigned.
EmptyTable == [rows |-> {}, seq |-> 0]

\* "DROP TABLE IF EXISTS days" followed by "CREATE TABLE days (...)".
drop_and_create_table(db, exists) == EmptyTable

\* "CREATE TABLE IF NOT EXISTS days (...)": an existing table is left alone.
create_table_if_not_exists(db, exists) == IF exists THEN db ELSE EmptyTable

\* DayRepository::new: the statement's error is returned by `?`, otherwise
\* the repository is a handle on the shared connection.
new(db, exists, fail) ==
    IF fail THEN [db |-> db, res |-> Err("StoreError")]
    ELSE [db |-> create_table_if_not_exists(db, exists), res |-> Ok(<<>>)]

\* ---------------------------------------------------------------- state
DB == [rows |-> rows, seq |-> seq]

\* Days a caller may hold and hand to resolve by value; those with id
\* MaxRows + 1 are rows of no reachable table.
Values == {Day(i, LastDate) : i \in {1, MaxRows + 1}}

References == {ById(i) : i \in Ids} \cup {ByValue(d) : d \in Values}

NoResult == Err("none")

\* The calls that resolve one date, and those that resolve a week window.
PointOps == {"from_date", "today", "yesterday"}
WindowOps == {"complete_week", "week_till_date", "week_till_today"}

\* The Day the call that just returned gave for `date`, when that call was a
\* successful window call with `date` in its sequence.
WindowDay(date) ==
    IF last.op \in WindowOps /\ last.res.ok
          /\ \E i \in 1..Len(last.res.val) : last.res.val[i].date = date
    THEN Ok(<<last.res.val[CHOOSE i \in 1..Len(last.res.val) :
                               last.res.val[i].date = date]>>)
    ELSE NoResult

\* A statement of the log failed.
Failed(log) == \E i \in 1..Len(log) : log[i].failed

\* A caller that has not called from_date yet.
Idle == [pc |-> "idle", date |-> 0, first |-> NoResult, faulty |-> FALSE,
         res |-> NoResult]

\* The first repository has been constructed over a connection without the
\* table.
Init ==
    /\ rows = new(EmptyTable, FALSE, FALSE).db.rows
    /\ seq = new(EmptyTable, FALSE, FALSE).db.seq
    /\ last = [op |-> "new", date |-> 0, id |-> 0, count |-> 0, value |-> <<>>,
               pre |-> {}, res |-> Ok(<<>>), steps |-> <<>>, log |-> <<>>,
               prior |-> NoResult, window |-> NoResult]
    /\ calls = [c \in Callers |-> Idle]

\* One finished call: the table it leaves (db), and the caller's view of
\* it: its arguments, the table before it (pre), its result, the result of
\* each date it resolved (steps) and the statements it sent (log).  prior is
\* the result of the call before it when both are from_date of one date;
\* window is the Day the call before it, a window call, returned for the
\* date this call resolves.
Call(op, date, id, count, value, db, res, steps, log) ==
    /\ Cardinality(db.rows) <= MaxRows
    /\ Failed(log) => Cardinality(rows) <= MaxFaultRows
    /\ rows' = db.rows
    /\ seq' = db.seq
    /\ last' = [op |-> op, date |-> date, id |-> id, count |-> count,
                value |-> value, pre |-> rows, res |-> res, steps |-> steps,
                log |-> log,
                prior |-> IF op = "from_date" /\ last.op = "from_date"
                             /\ last.date = date
                          THEN last.res ELSE NoResult,
                window |-> IF op \in PointOps THEN WindowDay(date) ELSE NoResult]
    /\ UNCHANGED calls

\* from_date(date)
FromDate(date, fs) ==
    \E r \in {from_date(DB, date, fs)} :
        Call("from_date", date, 0, 0, <<>>, r.db, r.res, <<r.res>>, r.log)

\* today(): from_date of the clock's date.
Today(now, fs) ==
    \E r \in {from_date(DB, now, fs)} :
        Call("today", now, 0, 0, <<>>, r.db, r.res, <<r.res>>, r.log)

\* yesterday(): from_date of the day before the clock's date
\* (checked_sub_days fails only below NaiveDate::MIN, far from these dates).
Yesterday(now, fs) ==
    \E r \in {from_date(DB, now - 1, fs)} :
        Call("yesterday", now - 1, 0, 0, <<>>, r.db, r.res, <<r.res>>, r.log)

\* complete_week(date)
CompleteWeek(date, faults) ==
    \E r \in {complete_week(DB, date, faults)} :
        Call("complete_week", date, 0, 0, <<>>, r.db, r.res, r.steps, r.log)

\* week_till_date(date)
WeekTillDate(date, faults) ==
    \E r \in {week_till_date(DB, date, faults)} :
        Call("week_till_date", date, 0, 0, <<>>, r.db, r.res, r.steps, r.log)

\* week_till_today(): week_till_date of the clock's date.
WeekTillToday(now, faults) ==
    \E r \in {week_till_date(DB, now, faults)} :
        Call("week_till_today", now, 0, 0, <<>>, r.db, r.res, r.steps, r.log)

\* list_passed_days(count)
ListPassedDays(count, fail) ==
    \E res \in list_passed_days(DB, count, fail) :
        Call("list_passed_days", 0, 0, count, <<>>, DB, res, <<>>,
             <<Sent("list", 0, fail)>>)

\* day(id) as a get-or-create: it writes a row when none has the id.
DayById_or_create(id, fail) ==
    Call("day", 0, id, 0, <<>>,
         IF fail \/ \E r \in rows : r.id = id THEN DB
         ELSE insert_from_date(DB, LastDate, FALSE).db,
         day(DB, id, fail), <<>>, <<Sent("day", 0, fail)>>)

\* day(id)
DayById(id, fail) ==
    Call("day", 0, id, 0, <<>>, DB, day(DB, id, fail), <<>>,
         <<Sent("day", 0, fail)>>)

\* resolve(reference): only a reference by id sends a statement.
Resolve(reference, fail) ==
    Call("resolve", 0, reference.id, 0, reference.day, DB,
         resolve(DB, reference, fail), <<>>,
         IF reference.tag = "Id" THEN <<Sent("day", 0, fail)>> ELSE <<>>)

\* DayRepository::new over the connection, which has the table: one more
\* repository on the same rows.
New(fail) ==
    \E r \in {new(DB, TRUE, fail)} :
        Call("new", 0, 0, 0, <<>>, r.db, r.res, <<>>, <<Sent("create", 0, fail)>>)

\* The store can fail in the call about to be made.
CanFail == Cardinality(rows) <= MaxFaultRows

\* The failing statements a call can be given.
Faults == IF CanFail THEN FaultSets ELSE {{}}

\* The same for a window call that resolves n dates: no statement fails; or
\* one does, on the k-th date; or the insert or the second lookup of the
\* k-th date does after the first lookup of the date before it has.
WindowFaults(n) ==
    {FaultsAt(0, {})} \cup
    IF CanFail
    THEN {FaultsAt(k, {stmt}) : k \in 1..n, stmt \in Stmts} \cup
         {[FaultsAt(k, {stmt}) EXCEPT ![k - 1] = {"lookup"}] :
             k \in 2..n, stmt \in {"insert", "relookup"}}
    ELSE {}

\* The number of dates week_till_date(date) resolves.
DaysTill(date) == WeekdayFromMonday(date) + 1

\* The same for a call that sends one statement.
Fails == IF CanFail THEN BOOLEAN ELSE {FALSE}

Next ==
    \/ \E d \in PointDates, fs \in Faults : FromDate(d, fs)
    \/ \E d \in PointDates, fs \in Faults : Today(d, fs)
    \/ \E d \in PointDates, fs \in Faults : Yesterday(d, fs)
    \/ \E d \in Dates, f \in WindowFaults(7) : CompleteWeek(d, f)
    \/ \E d \in Dates : \E f \in WindowFaults(DaysTill(d)) : WeekTillDate(d, f)
    \/ \E d \in PointDates : \E f \in WindowFaults(DaysTill(d)) : WeekTillToday(d, f)
    \/ \E c \in Counts, fail \in Fails : ListPassedDays(c, fail)
    \/ \E i \in Ids, fail \in Fails : DayById(i, fail)
    \/ \E ref \in References, fail \in Fails : Resolve(ref, fail)
    \/ \E fail \in Fails : New(fail)

NextNoFail ==
    \/ \E d \in PointDates : FromDate(d, {})
    \/ \E d \in PointDates : Today(d, {})
    \/ \E d \in PointDates : Yesterday(d, {})
    \/ \E d \in Dates : CompleteWeek(d, FaultsAt(0, {}))
    \/ \E d \in Dates : WeekTillDate(d, FaultsAt(0, {}))
    \/ \E d \in PointDates : WeekTillToday(d, FaultsAt(0, {}))
    \/ \E c \in Counts : ListPassedDays(c, FALSE)
    \/ \E i \in Ids : DayById(i, FALSE)
    \/ \E ref \in References : Resolve(ref, FALSE)
    \/ New(FALSE)

\* One caller over a store whose statements may fail.
Spec == Init /\ [][Next]_vars

\* One caller over a store whose statements never fail.
SpecNoFail == Init /\ [][NextNoFail]_vars

\* ---------------------------------------------------------------- two callers
\* from_date of caller c, one statement per step.  pc is the statement the
\* caller sends next ("done": from_date has returned res); first is the
\* result of its first lookup; faulty: a statement of the call has failed.

\* The callers inside from_date, before its return.
InFlight == {c \in Callers : calls[c].pc \in {"insert", "relookup"}}

\* Line 71: the call starts with the lookup; `if let Ok(day)` returns the
\* Day, any Err leads to the insert.
FromDateLookup(c, date, fail) ==
    /\ calls[c].pc \in {"idle", "done"}
    /\ Cardinality(rows) + Cardinality(InFlight) + 1 <= MaxRaceRows
    /\ LET first == from_date_or_none(DB, date, fail)
       IN  calls' = [calls EXCEPT ![c] =
                        [pc |-> IF first.ok THEN "done" ELSE "insert",
                         date |-> date, first |-> first, faulty |-> fail,
                         res |-> IF first.ok THEN first ELSE NoResult]]
    /\ UNCHANGED <<rows, seq, last>>

\* Line 74: the insert, its Result dropped.
FromDateInsert(c, fail) ==
    /\ calls[c].pc = "insert"
    /\ LET ins == insert_from_date(DB, calls[c].date, fail)
       IN  /\ rows' = ins.db.rows
           /\ seq' = ins.db.seq
    /\ calls' = [calls EXCEPT ![c].pc = "relookup",
                              ![c].faulty = calls[c].faulty \/ fail]
    /\ UNCHANGED last

\* Line 75: the second lookup, whose result from_date returns.
FromDateRelookup(c, fail) ==
    /\ calls[c].pc = "relookup"
    /\ calls' = [calls EXCEPT ![c].pc = "done",
                              ![c].faulty = calls[c].faulty \/ fail,
                              ![c].res = from_date_or_none(DB, calls[c].date, fail)]
    /\ UNCHANGED <<rows, seq, last>>

NextRace ==
    \/ \E c \in Callers, d \in PointDates, fail \in Fails : FromDateLookup(c, d, fail)
    \/ \E c \in Callers, fail \in Fails : FromDateInsert(c, fail)
    \/ \E c \in Callers, fail \in Fails : FromDateRelookup(c, fail)

\* Two callers of from_date on one store, their statements interleaved.
SpecRace == Init /\ [][NextRace]_vars

\* ---------------------------------------------------------------- claims
\* The Monday on or before a date, and the dates of a call's window.
MondayOf(date) == CHOOSE m \in (date - 6)..date : m % 7 = 1
FullWeek(date) == [i \in 1..7 |-> MondayOf(date) + i - 1]
WeekTill(date) == [i \in 1..(date - MondayOf(date) + 1) |-> MondayOf(date) + i - 1]
RowsOf(S, date) == {r \in S : r.date = date}

\* C1: when two consecutive from_date(D) calls of one caller both succeed,
\* their Days have the same id and the date D, and the table then holds at
\* most one row of date D.
C1_FromDateTwice ==
    (last.op = "from_date" /\ last.prior.ok /\ last.res.ok) =>
        /\ last.prior.val[1].id = last.res.val[1].id
        /\ last.prior.val[1].date = last.date
        /\ last.res.val[1].date = last.date
        /\ Cardinality(RowsOf(rows, last.date)) <= 1

\* C2: from the empty table, whatever calls one caller makes over a store
\* that does not fail, no two rows have the same date.
C2_UniqueDates ==
    \A r1 \in rows : \A r2 \in rows : r1.date = r2.date => r1 = r2

\* from_date has just found its date in a full table and added nothing.
C2_Witness ==
    /\ last.op = "from_date"
    /\ last.res.ok
    /\ last.pre = rows
    /\ Cardinality(rows) = MaxRows

\* C3: when a statement sent by from_date(D) fails (the lookup, the insert
\* or the second lookup), from_date returns a failure.
C3_ErrorsPropagate ==
    (last.op = "from_date" /\ Failed(last.log)) => ~last.res.ok

\* C4: a successful complete_week(D) returns 7 Days, rows of the table, of
\* 7 consecutive dates from the Monday on or before D to the Sunday on or
\* after D.
C4_WeekAlignment ==
    (last.op = "complete_week" /\ last.res.ok) =>
        LET v == last.res.val
        IN  /\ Len(v) = 7
            /\ v[1].date % 7 = 1
            /\ v[7].date % 7 = 0
            /\ v[1].date <= last.date
            /\ last.date <= v[7].date
            /\ \A i \in 1..6 : v[i + 1].date = v[i].date + 1
            /\ \A i \in 1..7 : v[i] \in rows

\* complete_week has returned a week for a date that is neither its Monday
\* nor its Sunday.
C4_Witness ==
    /\ last.op = "complete_week"
    /\ last.res.ok
    /\ last.res.val[1].date < last.date
    /\ last.date < last.res.val[7].date

\* C5: a successful week_till_date(D) returns, in order, the Days of
\* complete_week(D) of date <= D: the first weekday-index-of-D + 1 of them,
\* between 1 and 7, the last of date D.
C5_PartialWeek ==
    (last.op = "week_till_date" /\ last.res.ok) =>
        LET v == last.res.val
            full == complete_week(DB, last.date, FaultsAt(0, {})).res.val
            n == ((last.date - 1) % 7) + 1
        IN  /\ v = SelectSeq(full, LAMBDA d : d.date <= last.date)
            /\ v = SubSeq(full, 1, n)
            /\ Len(v) = n
            /\ 1 <= Len(v) /\ Len(v) <= 7
            /\ v[Len(v)].date = last.date
            /\ \A i \in 1..(Len(v) - 1) : v[i].date < v[i + 1].date

\* week_till_date has returned a proper part of the week, of several days.
C5_Witness ==
    /\ last.op = "week_till_date"
    /\ last.res.ok
    /\ Len(last.res.val) > 1
    /\ Len(last.res.val) < 7

\* C6: when resolving a date of the window fails, complete_week(D) and
\* week_till_date(D) return a failure; a sequence they return has one Day
\* for every date they were to resolve.
C6_FailWhole ==
    (last.op \in {"complete_week", "week_till_date"}) =>
        LET todo == IF last.op = "complete_week" THEN FullWeek(last.date)
                    ELSE WeekTill(last.date)
        IN  /\ (\E i \in 1..Len(last.steps) : ~last.steps[i].ok) => ~last.res.ok
            /\ last.res.ok =>
                  /\ Len(last.res.val) = Len(todo)
                  /\ \A i \in 1..Len(todo) : last.res.val[i].date = todo[i]
            /\ ~last.res.ok => last.res.val = <<>>

\* A window call has failed on a date after having resolved, and created,
\* earlier dates of its window.
C6_Witness ==
    /\ last.op \in {"complete_week", "week_till_date"}
    /\ ~last.res.ok
    /\ Len(last.steps) > 1
    /\ rows # last.pre

\* C7: whatever table the caller has reached, list_passed_days(count)
\* returns rows of it in strictly descending order of date, the most recent
\* ones, min(count, number of rows) of them; none for count = 0.
C7_ListPassedDays ==
    (last.op = "list_passed_days" /\ last.res.ok) =>
        LET v == last.res.val
        IN  /\ \A i \in 1..Len(v) : v[i] \in rows
            /\ \A i \in 1..(Len(v) - 1) : v[i].date > v[i + 1].date
            /\ Len(v) = IF last.count < Cardinality(rows) THEN last.count
                        ELSE Cardinality(rows)
            /\ \A r \in rows :
                  (\A i \in 1..Len(v) : v[i] # r) =>
                      \A i \in 1..Len(v) : r.date <= v[i].date
            /\ last.count = 0 => v = <<>>

\* C8: resolve of a reference by value returns the carried Day, row or not,
\* and sends no statement; resolve of a reference by id returns what day(id)
\* returns, and for the id of a row of the table (every Day from_date
\* returned is one) a Day equal to that row.
C8_Resolve ==
    (last.op = "resolve") =>
        /\ last.value # <<>> =>
              /\ last.res = Ok(last.value)
              /\ last.log = <<>>
        /\ last.value = <<>> =>
              /\ last.res = day(DB, last.id, Failed(last.log))
              /\ ~Failed(last.log) =>
                    \A d \in rows : d.id = last.id => last.res = Ok(<<d>>)
        /\ rows = last.pre

\* resolve by id has returned a row created after others.
C8_Witness ==
    /\ last.op = "resolve"
    /\ last.value = <<>>
    /\ last.res.ok
    /\ last.res.val[1] \in rows
    /\ last.res.val[1].id >= 2

\* C9: day(id), its statement sent without a store error, fails with
\* NotFound exactly when no row has that id, and otherwise returns the one
\* row of that id; the table is unchanged.
C9_DayById ==
    (last.op = "day") =>
        LET hits == {r \in rows : r.id = last.id}
        IN  /\ last.res = Err("NotFound") <=> (hits = {} /\ ~Failed(last.log))
            /\ (hits # {} /\ ~Failed(last.log)) =>
                  /\ Cardinality(hits) = 1
                  /\ last.res.ok
                  /\ last.res.val[1] \in hits
            /\ rows = last.pre

\* day(id) has failed on a table with rows, none of that id.
C9_Witness ==
    /\ last.op = "day"
    /\ last.res = Err("NotFound")
    /\ rows # {}

\* C10: a successful complete_week(D) adds one row for each date of the
\* Monday..Sunday window that had none, and no other row; a successful
\* week_till_date(D) one row for each date of the window up to D that had
\* none, and no other.  On the empty table with D a Thursday they leave 7
\* and 4 rows.
C10_WindowRows ==
    (last.op \in {"complete_week", "week_till_date"} /\ last.res.ok) =>
        LET todo == IF last.op = "complete_week" THEN FullWeek(last.date)
                    ELSE WeekTill(last.date)
            added == rows \ last.pre
        IN  /\ last.pre \subseteq rows
            /\ \A i \in 1..Len(todo) :
                  Cardinality(RowsOf(added, todo[i])) =
                      IF RowsOf(last.pre, todo[i]) = {} THEN 1 ELSE 0
            /\ \A r \in added : \E i \in 1..Len(todo) : r.date = todo[i]
            /\ last.op = "week_till_date" => \A r \in added : r.date <= last.date
            /\ (last.pre = {} /\ last.date % 7 = 4) =>
                  Cardinality(rows) = IF last.op = "complete_week" THEN 7 ELSE 4

\* C11: when from_date(E) (or today, yesterday) succeeds right after a
\* successful window call that returned a Day for E, it returns the Day of
\* the same id and the table has as many rows as before it.
C11_FromDateAfterWindow ==
    (last.op \in PointOps /\ last.window.ok /\ last.res.ok) =>
        /\ last.res.val[1].id = last.window.val[1].id
        /\ Cardinality(rows) = Cardinality(last.pre)

\* C12: in every reachable state no two rows have the same id; a step that
\* adds a row gives it an id greater than every id assigned before (the
\* ids 1..seq); and every step keeps every row, id and date, as it is.
C12_RowIdentity ==
    /\ [](/\ \A r1 \in rows : \A r2 \in rows : r1.id = r2.id => r1 = r2
          /\ \A r \in rows : 1 <= r.id /\ r.id <= seq)
    /\ [][/\ rows \subseteq rows'
          /\ seq <= seq'
          /\ \A r \in rows' \ rows : r.id > seq]_vars

\* A call has added a row to a table that had rows, one of them of the
\* same date.
C12_Witness ==
    /\ last.pre # {}
    /\ \E r \in rows \ last.pre : \E q \in last.pre : q.date = r.date

\* C13: when two from_date(D) calls interleave so that the first lookup of
\* both finds no row of date D (both look up before either inserts), both
\* insert: once both are past their insert, no statement having failed, the
\* table holds two rows of date D.
C13_Race ==
    \A a \in Callers : \A b \in Callers :
        (/\ a # b
         /\ calls[a].date = calls[b].date
         /\ calls[a].pc \in {"relookup", "done"}
         /\ calls[b].pc \in {"relookup", "done"}
         /\ calls[a].first = Err("NotFound")
         /\ calls[b].first = Err("NotFound")
         /\ ~calls[a].faulty /\ ~calls[b].faulty) =>
            /\ Cardinality(RowsOf(rows, calls[a].date)) >= 2
            /\ ~C2_UniqueDates

\* Both calls, started on a table without a row of their date, have
\* returned, and the table holds two rows of that date.
C13_Witness ==
    /\ calls["a"].pc = "done" /\ calls["b"].pc = "done"
    /\ calls["a"].date = calls["b"].date
    /\ calls["a"].first = Err("NotFound") /\ calls["b"].first = Err("NotFound")
    /\ ~calls["a"].faulty /\ ~calls["b"].faulty
    /\ Cardinality(RowsOf(rows, calls["a"].date)) = 2

\* C14: however the statements of two from_date(D) calls interleave, when
\* both calls have returned a Day, the two Days have the same id (and the
\* date D and are rows of the table).
C14_Convergence ==
    \A a \in Callers : \A b \in Callers :
        (/\ calls[a].pc = "done" /\ calls[b].pc = "done"
         /\ calls[a].date = calls[b].date
         /\ calls[a].res.ok /\ calls[b].res.ok) =>
            /\ calls[a].res.val[1].id = calls[b].res.val[1].id
            /\ calls[a].res.val[1].date = calls[a].date
            /\ calls[a].res.val[1] \in rows

\* Both calls have inserted a row of the same date and have returned.
C14_Witness ==
    /\ calls["a"].pc = "done" /\ calls["b"].pc = "done"
    /\ calls["a"].date = calls["b"].date
    /\ calls["a"].res.ok /\ calls["b"].res.ok
    /\ calls["a"].first = Err("NotFound") /\ calls["b"].first = Err("NotFound")
    /\ Cardinality(RowsOf(rows, calls["a"].date)) >= 2

\* C15: DayRepository::new over a connection that has the table, whether
\* its statement succeeds or fails, leaves every row and the id counter as
\* they were: the repositories of one connection have the same rows.
C15_NewIdempotent ==
    (last.op = "new") =>
        /\ rows = last.pre
        /\ \A r \in rows : r.id <= seq

\* One more repository has been constructed over a table with several rows.
C15_Witness ==
    /\ last.op = "new"
    /\ last.res.ok
    /\ Cardinality(rows) >= 2
    /\ rows = last.pre

\* C16: list_passed_days, day and resolve (and new) leave the rows as they
\* were, whether they succeed or fail; a call after which the rows differ
\* is from_date, today, yesterday or a window call.
C16_ReadOnly ==
    /\ last.op \in {"list_passed_days", "day", "resolve"} => rows = last.pre
    /\ rows # last.pre => last.op \in PointOps \cup WindowOps

\* A read has failed on a table with a row.
C16_Witness ==
    /\ last.op \in {"list_passed_days", "day", "resolve"}
    /\ ~last.res.ok
    /\ Failed(last.log)
    /\ rows # {}
    /\ rows = last.pre

\* C17: from_date(D) of a single caller, statements failing or not, sends
\* its insert only when the table has no row of date D; when it has one,
\* the call leaves the rows of date D as they were.
C17_InsertOnlyWhenAbsent ==
    (last.op = "from_date") =>
        /\ (\E i \in 1..Len(last.log) : last.log[i].stmt = "insert") =>
              RowsOf(last.pre, last.date) = {}
        /\ RowsOf(last.pre, last.date) # {} =>
              RowsOf(rows, last.date) = RowsOf(last.pre, last.date)

\* C18: a Day that from_date(D) (also through today and yesterday) returns
\* is a row of the table at the return and has the date D; the call keeps
\* the rows it found and adds at most one row, of date D.
C18_FromDatePost ==
    (last.op \in PointOps) =>
        /\ last.res.ok =>
              /\ Len(last.res.val) = 1
              /\ last.res.val[1] \in rows
              /\ last.res.val[1].date = last.date
        /\ last.pre \subseteq rows
        /\ Cardinality(rows \ last.pre) <= 1
        /\ \A r \in rows \ last.pre : r.date = last.date

\* from_date has returned the row it added to a table holding rows of
\* other dates.
C18_Witness ==
    /\ last.op = "from_date"
    /\ last.res.ok
    /\ last.res.val[1] \in rows \ last.pre
    /\ \E r \in last.pre : r.date # last.date

\* C19: when complete_week(D) or week_till_date(D) fails on the k-th date of
\* its window, the rows it found and those it created remain, every
\* earlier date of the window has a row, no statement was sent for a later
\* date, and the rows it added are one for each earlier date of the window
\* that had none, at most one of the k-th date, and no other.
C19_NoRollback ==
    (last.op \in {"complete_week", "week_till_date"} /\ ~last.res.ok) =>
        LET todo == IF last.op = "complete_week" THEN FullWeek(last.date)
                    ELSE WeekTill(last.date)
            k == Len(last.steps)
            added == rows \ last.pre
        IN  /\ 1 <= k /\ k <= Len(todo)
            /\ ~last.steps[k].ok
            /\ last.pre \subseteq rows
            /\ \A i \in 1..(k - 1) : RowsOf(rows, todo[i]) # {}
            /\ \A i \in 1..Len(last.log) : last.log[i].date <= todo[k]
            /\ \A r \in added : \E i \in 1..k : r.date = todo[i]
            /\ \A i \in 1..(k - 1) :
                  Cardinality(RowsOf(added, todo[i])) =
                      IF RowsOf(last.pre, todo[i]) = {} THEN 1 ELSE 0
            /\ Cardinality(RowsOf(added, todo[k])) <= 1
====
